---- MODULE Spec2Model ----
(***************************************************************************)
(* The grid patrol simulator of src/src/day06.rs: the parser of a board    *)
(* text (Area::from_str), the guard state machine (next_state), the patrol *)
(* driver (count_distinct_patrol_positions) and the loop search            *)
(* (count_possible_loops).                                                 *)
(*                                                                         *)
(* A text is a sequence of one-character strings.  A Rust Option is a      *)
(* record: None, or Some(v) with the value in its field val.  A panic is   *)
(* an outcome of its own.                                                  *)
(***************************************************************************)
EXTENDS Integers, Sequences, FiniteSets, TLC

VARIABLES
    input,       \* the &str both entry points are called with
    pc,          \* where the harness is: part 1, then part 2, on the same input
    area1,       \* part 1: `area` (stepped in place)
    positions1,  \* part 1: `positions`
    result1,     \* part 1: pending, returned count, or panicked
    first1,      \* history: the first Action next_state returned in part 1
    area2,       \* part 2: `area`, the parsed original
    inner,       \* part 2: the clone the candidate patrol steps (line 222)
    positions2,  \* part 2: `set`, then `positions`
    todo,        \* part 2: candidates the parallel iterator has not handed out
    budget,      \* part 2: the value of FUEL the loop search was built with
    threads,     \* part 2: the number of worker threads of the parallel iterator
    base,        \* part 2: per worker, map_with's clone of `area` (line 237)
    trial,       \* part 2: per worker, the trial in progress (closure locals
                 \* and, as history, the guard states it has been in), or None
    verdict,     \* part 2: the booleans mapped so far, one record per candidate
                 \* (with the number of next_state calls its trial made)
    result2      \* part 2: pending, returned count, or panicked

vars == <<input, pc, area1, positions1, result1, first1, area2, inner,
          positions2, todo, budget, threads, base, trial, verdict, result2>>

----------------------------------------------------------------------------
(* Bounds of the explored inputs. *)

\* boards of at most this many cells (rows * cols)
MaxCells == 9
\* boards with at most this many '#' cells
MaxObst == 3
\* the interleaved loop search: boards of at most this many cells
ParCells == 4
\* the interleaved loop search: this many worker threads
NThreads == 2
\* the loop search under other budgets than FUEL: budgets 0..MaxFuel
MaxFuel == 3

----------------------------------------------------------------------------
(* Program constants. *)

\* roughly the lowest fuel value that produces a valid answer
FUEL == 6000

\* usize::MAX, the departed sentinel.  The model's machine word is the 31 bits
\* TLC computes with; no index arithmetic of the model comes near its end.
usize_MAX == 2147483647

\* isize::MAX on the same word
isize_MAX == 1073741823

NL == "\n"

None == [some |-> FALSE]
Some(v) == [some |-> TRUE, val |-> v]

Direction == {"N", "E", "S", "W"}

----------------------------------------------------------------------------
(* Characters: Guard::is_guard_char, Position::try_from, Direction::try_from *)

\* the characters Guard::is_guard_char accepts
Markers == {"^", ">", "V", "<"}

is_guard_char(c) == c \in Markers

Position_try_from(c) ==
    IF c = "#" THEN Some("Obstructed")
    ELSE IF c \in {".", "^", ">", "V", "<"} THEN Some("Clear")
    ELSE None

Direction_try_from(c) ==
    IF c = "^" THEN Some("N")
    ELSE IF c = ">" THEN Some("E")
    ELSE IF c = "V" THEN Some("S")
    ELSE IF c = "<" THEN Some("W")
    ELSE None

\* mutant of turn_right: the turn taken the other way round
turn_right_anticlockwise(d) ==
    CASE d = "N" -> "W"
      [] d = "W" -> "S"
      [] d = "S" -> "E"
      [] d = "E" -> "N"

\* mutant of turn_right: the last arm repeats the first arm's result
turn_right_west_to_east(d) ==
    CASE d = "N" -> "E"
      [] d = "E" -> "S"
      [] d = "S" -> "W"
      [] d = "W" -> "E"

\* Direction::turn_right
turn_right(d) ==
    CASE d = "N" -> "E"
      [] d = "E" -> "S"
      [] d = "S" -> "W"
      [] d = "W" -> "N"

----------------------------------------------------------------------------
(* str::find: the 0-based offset of the first character the pattern        *)
(* accepts; the pattern is given as the set of characters it accepts.      *)

find(s, accepted) ==
    LET hits == {k \in 1..Len(s) : s[k] \in accepted} IN
    IF hits = {} THEN None
    ELSE Some((CHOOSE k \in hits : \A j \in hits : k <= j) - 1)

\* s.chars().filter(|&c| c != '\n'); also what split('\n').flat_map(chars) yields
not_newline(c) == c # NL
cell_chars(s) == SelectSeq(s, not_newline)

----------------------------------------------------------------------------
(* Area::from_str.  The outcome is [kind |-> "Ok", area |-> a], or          *)
(* [kind |-> "Err"] (a `?` returned Err(())), or [kind |-> "Panic"] (an     *)
(* unwrap or a division by zero inside from_str).                           *)

\* DMatrix::from_row_iterator(nrows, ncols, iter): the first nrows * ncols
\* elements of iter, element k at row k / ncols, column k % ncols, stored
\* column-major: linear index i + j * nrows holds row i, column j.
from_row_iterator(nrows, ncols, elems) ==
    [nrows |-> nrows, ncols |-> ncols,
     data |-> [idx \in 0..(nrows * ncols - 1) |->
                  elems[(idx % nrows) * ncols + (idx \div nrows) + 1]]]

from_str(s) ==
    LET nl == find(s, {NL}) IN
    IF nl = None THEN [kind |-> "Err"]
    ELSE
    LET ncols == nl.val IN
    IF ncols = 0 THEN [kind |-> "Panic"]
    ELSE
    LET chars == cell_chars(s)
        nrows == Len(chars) \div ncols
        taken == SubSeq(chars, 1, nrows * ncols)
    IN
    IF \E k \in 1..Len(taken) : Position_try_from(taken[k]) = None
    THEN [kind |-> "Panic"]
    ELSE
    LET map == from_row_iterator(nrows, ncols,
                   [k \in 1..Len(taken) |-> Position_try_from(taken[k]).val])
        raw == find(s, Markers)
    IN
    IF raw = None THEN [kind |-> "Err"]
    ELSE
    LET raw_index == raw.val
        row_index == raw_index - (raw_index \div nrows) + 1
        index == (row_index % ncols) * nrows + (row_index \div nrows)
        direction == Direction_try_from(s[raw_index + 1])
    IN
    IF direction = None THEN [kind |-> "Err"]
    ELSE [kind |-> "Ok",
          area |-> [map |-> map,
                    guard |-> [index |-> index, direction |-> direction.val]]]

----------------------------------------------------------------------------
(* The guard state machine. *)

Advance(i) == [kind |-> "Advance", index |-> i]
Rotate == [kind |-> "Rotate"]
Leave == [kind |-> "Leave"]
\* not an Action: next_guard_action panicked (an unwrap, or map[index] out of bounds)
Panicked == [kind |-> "Panic"]

guard_will_leave(area) ==
    LET ncols == area.map.ncols
        nrows == area.map.nrows
        index == area.guard.index
        d == area.guard.direction
    IN
    \/ d = "N" /\ index % nrows = 0
    \/ d = "E" /\ index \div ncols = ncols - 1
    \/ d = "S" /\ index % nrows = nrows - 1
    \/ d = "W" /\ index \div ncols = 0

\* Option<usize>, or Panicked when the conversion to isize fails
next_guard_index(area) ==
    IF guard_will_leave(area) THEN None
    ELSE IF area.guard.index > isize_MAX THEN Panicked
    ELSE
    LET index == area.guard.index
        d == area.guard.direction
        offset == CASE d = "N" -> -1
                    [] d = "E" -> area.map.nrows
                    [] d = "S" -> 1
                    [] d = "W" -> -(area.map.nrows)
    IN IF index + offset >= 0 THEN Some(index + offset) ELSE None

next_guard_action(area) ==
    LET r == next_guard_index(area) IN
    IF r = Panicked THEN Panicked
    ELSE IF r = None THEN Leave
    ELSE IF r.val \notin DOMAIN area.map.data THEN Panicked
    ELSE IF area.map.data[r.val] = "Clear" THEN Advance(r.val)
    ELSE Rotate

\* mutant of run_action: Advance turns the guard as well
run_action_advance_turns(area, action) ==
    CASE action.kind = "Advance" ->
           [area EXCEPT !.guard.index = action.index,
                        !.guard.direction = turn_right(area.guard.direction)]
      [] action.kind = "Rotate" ->
           [area EXCEPT !.guard.direction = turn_right(area.guard.direction)]
      [] action.kind = "Leave" ->
           [area EXCEPT !.guard.index = usize_MAX]

\* Area::run_action, lines 46-58
run_action(area, action) ==
    CASE action.kind = "Advance" ->
           [area EXCEPT !.guard.index = action.index]
      [] action.kind = "Rotate" ->
           [area EXCEPT !.guard.direction = turn_right(area.guard.direction)]
      [] action.kind = "Leave" ->
           [area EXCEPT !.guard.index = usize_MAX]

\* Area::next_state: the action computed, and the area after running it
next_state(area) ==
    LET action == next_guard_action(area) IN
    [action |-> action,
     area |-> IF action = Panicked THEN area ELSE run_action(area, action)]

is_leave(action) == action = Leave

----------------------------------------------------------------------------
(* The inputs explored: every rectangular board within the bounds, with or  *)
(* without a final newline, and the corruptions of the obstruction-free     *)
(* ones; the sample board of the tests has a specification of its own.      *)

\* tests::EXAMPLE, the 10 x 10 sample board (no trailing newline)
EXAMPLE ==
       <<".", ".", ".", ".", "#", ".", ".", ".", ".", ".", NL>>
    \o <<".", ".", ".", ".", ".", ".", ".", ".", ".", "#", NL>>
    \o <<".", ".", ".", ".", ".", ".", ".", ".", ".", ".", NL>>
    \o <<".", ".", "#", ".", ".", ".", ".", ".", ".", ".", NL>>
    \o <<".", ".", ".", ".", ".", ".", ".", "#", ".", ".", NL>>
    \o <<".", ".", ".", ".", ".", ".", ".", ".", ".", ".", NL>>
    \o <<".", "#", ".", ".", "^", ".", ".", ".", ".", ".", NL>>
    \o <<".", ".", ".", ".", ".", ".", ".", ".", "#", ".", NL>>
    \o <<"#", ".", ".", ".", ".", ".", ".", ".", ".", ".", NL>>
    \o <<".", ".", ".", ".", ".", ".", "#", ".", ".", ".">>

\* The text of the rows x cols board with the marker d at row-major cell g and
\* '#' at the row-major cells obs; trail: the text ends with a newline.
BoardText(rows, cols, g, d, obs, trail) ==
    [p \in 1..(rows * (cols + 1) - (IF trail THEN 0 ELSE 1)) |->
        LET r == (p - 1) \div (cols + 1)
            c == (p - 1) % (cols + 1)
        IN IF c = cols THEN NL
           ELSE IF r * cols + c = g THEN d
           ELSE IF (r * cols + c) \in obs THEN "#"
           ELSE "."]

Dims == {rc \in (1..MaxCells) \X (1..MaxCells) : rc[1] * rc[2] <= MaxCells}

Delete(s, k) == SubSeq(s, 1, k - 1) \o SubSeq(s, k + 1, Len(s))
Replace(s, k, c) == [s EXCEPT ![k] = c]

\* a rectangular board within the bounds
InputBoard ==
    \E rc \in Dims, d \in Markers, trail \in BOOLEAN :
    \E g \in 0..(rc[1] * rc[2] - 1) :
    \E obs \in SUBSET ((0..(rc[1] * rc[2] - 1)) \ {g}) :
        /\ Cardinality(obs) <= MaxObst
        /\ input = BoardText(rc[1], rc[2], g, d, obs, trail)

\* an obstruction-free board with one character dropped, one replaced by a
\* character that is no cell, or the guard marker replaced by a clear cell
InputCorrupted ==
    \E rc \in Dims, d \in Markers, trail \in BOOLEAN :
    \E g \in 0..(rc[1] * rc[2] - 1) :
        LET b == BoardText(rc[1], rc[2], g, d, {}, trail) IN
        \E k \in 1..Len(b) :
            \/ input = Delete(b, k)
            \/ input = Replace(b, k, "x")
            \/ is_guard_char(b[k]) /\ input = Replace(b, k, ".")

----------------------------------------------------------------------------
(* The two entry points, called one after the other on the same input. *)

Pending == [st |-> "pending"]
Returned(n) == [st |-> "ret", val |-> n]
Panic == [st |-> "panic"]

Start ==
    /\ pc = "part1_parse"
    /\ area1 = None
    /\ positions1 = {}
    /\ result1 = Pending
    /\ first1 = None
    /\ area2 = None
    /\ inner = None
    /\ positions2 = {}
    /\ todo = {}
    /\ base = [w \in 1..threads |-> None]
    /\ trial = [w \in 1..threads |-> None]
    /\ verdict = {}
    /\ result2 = Pending

\* the program as built: FUEL as in the source, the candidates taken one at a
\* time by one worker thread
AsBuilt == budget = FUEL /\ threads = 1

Init == (InputBoard \/ InputCorrupted) /\ AsBuilt /\ Start

InitExample == input = EXAMPLE /\ AsBuilt /\ Start

part2Vars == <<area2, inner, positions2, todo, budget, threads, base, trial,
               verdict, result2>>

\* the workers that are inside the closure
Active == {w \in DOMAIN trial : trial[w] # None}
part1Vars == <<area1, positions1, result1, first1>>

\* count_distinct_patrol_positions, line 196-197: input.parse::<Area>().unwrap()
Part1Parse ==
    /\ pc = "part1_parse"
    /\ LET r == from_str(input) IN
       IF r.kind = "Ok"
       THEN /\ area1' = r.area
            /\ pc' = "part1_loop"
            /\ UNCHANGED result1
       ELSE /\ result1' = Panic
            /\ pc' = "part2_parse"
            /\ UNCHANGED area1
    /\ positions1' = {}
    /\ UNCHANGED <<input, first1>>
    /\ UNCHANGED part2Vars

\* count_distinct_patrol_positions, lines 199-207: one iteration of the loop,
\* and the return when the action is Leave
Part1Step ==
    /\ pc = "part1_loop"
    /\ LET seen == positions1 \cup {area1.guard.index}
           n == next_state(area1)
       IN
       /\ positions1' = seen
       /\ area1' = n.area
       /\ first1' = IF first1 = None /\ n.action # Panicked
                    THEN Some(n.action) ELSE first1
       /\ IF n.action = Panicked
          THEN result1' = Panic /\ pc' = "part2_parse"
          ELSE IF is_leave(n.action)
          THEN result1' = Returned(Cardinality(seen)) /\ pc' = "part2_parse"
          ELSE UNCHANGED <<result1, pc>>
    /\ UNCHANGED input
    /\ UNCHANGED part2Vars


\* count_possible_loops, lines 216-222: parse, then clone for the candidate patrol
Part2Parse ==
    /\ pc = "part2_parse"
    /\ LET r == from_str(input) IN
       IF r.kind = "Ok"
       THEN /\ area2' = r.area
            /\ inner' = r.area
            /\ pc' = "part2_patrol"
            /\ UNCHANGED result2
       ELSE /\ result2' = Panic
            /\ pc' = "done"
            /\ UNCHANGED <<area2, inner>>
    /\ positions2' = {}
    /\ UNCHANGED <<input, todo, budget, threads, base, trial, verdict>>
    /\ UNCHANGED part1Vars

\* mutant of Part2PatrolStep: the position is recorded after the step, not
\* before it
Part2PatrolStep_insert_after ==
    /\ pc = "part2_patrol"
    /\ LET n == next_state(inner)
           seen == positions2 \cup {n.area.guard.index}
       IN
       /\ positions2' = seen
       /\ inner' = n.area
       /\ IF n.action = Panicked
          THEN result2' = Panic /\ pc' = "done" /\ UNCHANGED <<todo, base>>
          ELSE IF is_leave(n.action)
          THEN /\ todo' = seen
               /\ base' = [w \in 1..threads |-> area2]
               /\ pc' = "part2_trials"
               /\ UNCHANGED result2
          ELSE UNCHANGED <<result2, pc, todo, base>>
    /\ UNCHANGED <<input, area2, budget, threads, trial, verdict>>
    /\ UNCHANGED part1Vars

\* count_possible_loops, lines 224-237: one iteration of the candidate patrol;
\* on Leave the set becomes `positions`, the items of the parallel iterator,
\* and map_with gives every worker its clone of `area`
Part2PatrolStep ==
    /\ pc = "part2_patrol"
    /\ LET seen == positions2 \cup {inner.guard.index}
           n == next_state(inner)
       IN
       /\ positions2' = seen
       /\ inner' = n.area
       /\ IF n.action = Panicked
          THEN result2' = Panic /\ pc' = "done" /\ UNCHANGED <<todo, base>>
          ELSE IF is_leave(n.action)
          THEN /\ todo' = seen
               /\ base' = [w \in 1..threads |-> area2]
               /\ pc' = "part2_trials"
               /\ UNCHANGED result2
          ELSE UNCHANGED <<result2, pc, todo, base>>
    /\ UNCHANGED <<input, area2, budget, threads, trial, verdict>>
    /\ UNCHANGED part1Vars

\* The order in which the parallel iterator hands the candidates to the
\* closure: one worker thread takes them in ascending order; with several
\* threads any of them may take any candidate next.
Schedule(items) ==
    IF threads = 1 THEN {i \in items : \A j \in items : i <= j} ELSE items

\* mutant of place_obstruction: the clone is left as parsed
place_obstruction_skipped(area, i) == area

\* line 241: area.map[i] = Position::Obstructed, on the trial's clone
place_obstruction(area, i) == [area EXCEPT !.map.data[i] = "Obstructed"]

\* mutant of closure_clone: the closure steps map_with's value in place, so
\* what it did stays with the worker
closure_clone_in_place(held, stepped) == stepped

\* line 240: let mut area = area.clone(); the closure steps the clone `stepped`
\* and the worker keeps holding `held`, the value map_with gave it
closure_clone(held, stepped) == held

\* lines 239-243: worker w starts the closure on candidate i: clone, place the
\* obstruction
TrialStart(w, i) ==
    /\ pc = "part2_trials"
    /\ trial[w] = None
    /\ i \in todo
    /\ todo' = todo \ {i}
    /\ IF i \in DOMAIN base[w].map.data
       THEN /\ trial' = [trial EXCEPT ![w] =
                           Some([i |-> i,
                                 area |-> place_obstruction(base[w], i),
                                 fuel |-> 0,
                                 not_a_loop |-> FALSE,
                                 been |-> {base[w].guard},
                                 again |-> FALSE])]
            /\ UNCHANGED <<pc, result2>>
       ELSE /\ result2' = Panic
            /\ pc' = "done"
            /\ UNCHANGED trial
    /\ UNCHANGED <<input, area2, inner, positions2, budget, threads, base,
                   verdict>>
    /\ UNCHANGED part1Vars

\* mutant of TrialStep: the loop does not break on Leave
TrialStep_no_break(w) ==
    /\ pc = "part2_trials"
    /\ trial[w] # None
    /\ ~trial[w].val.not_a_loop
    /\ trial[w].val.fuel < budget
    /\ LET n == next_state(trial[w].val.area) IN
       IF n.action = Panicked
       THEN result2' = Panic /\ pc' = "done" /\ UNCHANGED trial
       ELSE /\ trial' = [trial EXCEPT ![w] =
                           Some([trial[w].val EXCEPT
                                    !.area = n.area,
                                    !.fuel = @ + 1,
                                    !.not_a_loop = FALSE,
                                    !.been = @ \cup {n.area.guard},
                                    !.again = @ \/ (/\ ~is_leave(n.action)
                                                    /\ n.area.guard \in
                                                         trial[w].val.been)])]
            /\ UNCHANGED <<pc, result2>>
    /\ UNCHANGED <<input, area2, inner, positions2, todo, budget, threads,
                   base, verdict>>
    /\ UNCHANGED part1Vars

\* lines 244-249: one iteration of `for _ in 0..FUEL` on worker w.  History:
\* been collects the guard states of the trial, again records that a step
\* other than Leave ended in a state the guard had been in.
TrialStep(w) ==
    /\ pc = "part2_trials"
    /\ trial[w] # None
    /\ ~trial[w].val.not_a_loop
    /\ trial[w].val.fuel < budget
    /\ LET n == next_state(trial[w].val.area) IN
       IF n.action = Panicked
       THEN result2' = Panic /\ pc' = "done" /\ UNCHANGED trial
       ELSE /\ trial' = [trial EXCEPT ![w] =
                           Some([trial[w].val EXCEPT
                                    !.area = n.area,
                                    !.fuel = @ + 1,
                                    !.not_a_loop = is_leave(n.action),
                                    !.been = @ \cup {n.area.guard},
                                    !.again = @ \/ (/\ ~is_leave(n.action)
                                                    /\ n.area.guard \in
                                                         trial[w].val.been)])]
            /\ UNCHANGED <<pc, result2>>
    /\ UNCHANGED <<input, area2, inner, positions2, todo, budget, threads,
                   base, verdict>>
    /\ UNCHANGED part1Vars

\* mutant of TrialEnd: the closure returns not_a_loop, without the negation
TrialEnd_returns_not_a_loop(w) ==
    /\ pc = "part2_trials"
    /\ trial[w] # None
    /\ trial[w].val.not_a_loop \/ trial[w].val.fuel = budget
    /\ verdict' = verdict \cup {[i |-> trial[w].val.i,
                                 is_loop |-> trial[w].val.not_a_loop,
                                 calls |-> trial[w].val.fuel,
                                 again |-> trial[w].val.again]}
    /\ base' = [base EXCEPT ![w] = closure_clone(base[w], trial[w].val.area)]
    /\ trial' = [trial EXCEPT ![w] = None]
    /\ UNCHANGED <<input, pc, area2, inner, positions2, todo, budget, threads,
                   result2>>
    /\ UNCHANGED part1Vars

\* mutant of TrialEnd: a trial that used up its budget is mapped to false,
\* as an escape
TrialEnd_exhausted_escapes(w) ==
    /\ pc = "part2_trials"
    /\ trial[w] # None
    /\ trial[w].val.not_a_loop \/ trial[w].val.fuel = budget
    /\ verdict' = verdict \cup {[i |-> trial[w].val.i,
                                 is_loop |-> FALSE,
                                 calls |-> trial[w].val.fuel,
                                 again |-> trial[w].val.again]}
    /\ base' = [base EXCEPT ![w] = closure_clone(base[w], trial[w].val.area)]
    /\ trial' = [trial EXCEPT ![w] = None]
    /\ UNCHANGED <<input, pc, area2, inner, positions2, todo, budget, threads,
                   result2>>
    /\ UNCHANGED part1Vars

\* line 251: the closure on worker w returns !not_a_loop, after the break or
\* with the range exhausted
TrialEnd(w) ==
    /\ pc = "part2_trials"
    /\ trial[w] # None
    /\ trial[w].val.not_a_loop \/ trial[w].val.fuel = budget
    /\ verdict' = verdict \cup {[i |-> trial[w].val.i,
                                 is_loop |-> ~trial[w].val.not_a_loop,
                                 calls |-> trial[w].val.fuel,
                                 again |-> trial[w].val.again]}
    /\ base' = [base EXCEPT ![w] = closure_clone(base[w], trial[w].val.area)]
    /\ trial' = [trial EXCEPT ![w] = None]
    /\ UNCHANGED <<input, pc, area2, inner, positions2, todo, budget, threads,
                   result2>>
    /\ UNCHANGED part1Vars

\* lines 253-254: .filter(|&x| x).count(), once every item has been mapped
Part2Return ==
    /\ pc = "part2_trials"
    /\ Active = {}
    /\ todo = {}
    /\ result2' = Returned(Cardinality({v \in verdict : v.is_loop}))
    /\ pc' = "done"
    /\ UNCHANGED <<input, area2, inner, positions2, todo, budget, threads,
                   base, trial, verdict>>
    /\ UNCHANGED part1Vars

Next ==
    \/ Part1Parse
    \/ Part1Step
    \/ Part2Parse
    \/ Part2PatrolStep
    \/ \E w \in 1..threads : \E i \in Schedule(todo) : TrialStart(w, i)
    \/ \E w \in 1..threads : TrialStep(w)
    \/ \E w \in 1..threads : TrialEnd(w)
    \/ Part2Return

\* lines 243-251 as a function: what the closure finds on `area`, its clone
\* with the obstruction placed, with `fuel` iterations left
RECURSIVE run_trial(_, _)
run_trial(area, fuel) ==
    IF fuel = 0 THEN "loop"
    ELSE LET n == next_state(area) IN
         IF n.action = Panicked THEN "panic"
         ELSE IF is_leave(n.action) THEN "escape"
         ELSE run_trial(n.area, fuel - 1)

\* lines 237-254 evaluated one candidate after the other, each on a clone of
\* `area`; the order does not enter
count_sequentially(area, positions, fuel) ==
    IF \E i \in positions :
          \/ i \notin DOMAIN area.map.data
          \/ run_trial(place_obstruction(area, i), fuel) = "panic"
    THEN Panic
    ELSE Returned(Cardinality(
            {i \in positions :
                run_trial(place_obstruction(area, i), fuel) = "loop"}))

Spec == Init /\ [][Next]_vars

\* a rectangular board of at most ParCells cells, every row ended by a newline
InputSmall ==
    \E rc \in {d \in Dims : d[1] * d[2] <= ParCells} :
    \E d \in Markers :
    \E g \in 0..(rc[1] * rc[2] - 1) :
    \E obs \in SUBSET ((0..(rc[1] * rc[2] - 1)) \ {g}) :
        /\ Cardinality(obs) <= MaxObst
        /\ input = BoardText(rc[1], rc[2], g, d, obs, TRUE)

\* the loop search built with a budget of 0..MaxFuel, its closure run by
\* NThreads worker threads that take the candidates in any order and
\* interleave their steps in any way
InitPar ==
    /\ InputSmall
    /\ budget \in 0..MaxFuel
    /\ threads = NThreads
    /\ Start

SpecPar == InitPar /\ [][Next]_vars

\* the same program on the sample board of the tests
SpecExample == InitExample /\ [][Next]_vars


----------------------------------------------------------------------------
(* What a board text says, read off the text itself (independently of      *)
(* from_str): its rows, its marker, whether it is a valid board.           *)

\* the text without one final newline
TextBody(s) == IF Len(s) > 0 /\ s[Len(s)] = NL THEN SubSeq(s, 1, Len(s) - 1) ELSE s

\* 0-based row and column of the character at position k
RowOf(s, k) == Cardinality({j \in 1..(k - 1) : s[j] = NL})
ColOf(s, k) ==
    LET before == {j \in 1..(k - 1) : s[j] = NL} IN
    IF before = {} THEN k - 1
    ELSE k - 1 - (CHOOSE j \in before : \A i \in before : i <= j)

TextRows(s) == Cardinality({j \in 1..Len(TextBody(s)) : s[j] = NL}) + 1
RowLen(s, r) ==
    Cardinality({k \in 1..Len(TextBody(s)) : s[k] # NL /\ RowOf(s, k) = r})
TextCols(s) == RowLen(s, 0)

Rectangular(s) ==
    /\ TextCols(s) >= 1
    /\ \A r \in 0..(TextRows(s) - 1) : RowLen(s, r) = TextCols(s)

MarkerAt(s) == {k \in 1..Len(s) : s[k] \in Markers}
HasUnknownChar(s) == \E k \in 1..Len(s) : s[k] \notin (Markers \cup {".", "#", NL})

ValidBoard(s) ==
    /\ Rectangular(s)
    /\ Cardinality(MarkerAt(s)) = 1
    /\ ~HasUnknownChar(s)

Malformed(s) == ~Rectangular(s) \/ MarkerAt(s) = {} \/ HasUnknownChar(s)

\* of a valid board: the marker's position, row, column, and the linear
\* (column-major) index of its cell
MarkerPos(s) == CHOOSE k \in MarkerAt(s) : TRUE
MarkerRow(s) == RowOf(s, MarkerPos(s))
MarkerCol(s) == ColOf(s, MarkerPos(s))
MarkerIndex(s) == MarkerCol(s) * TextRows(s) + MarkerRow(s)
MarkerFacing(s) ==
    LET c == s[MarkerPos(s)] IN
    CASE c = "^" -> "N" [] c = ">" -> "E" [] c = "V" -> "S" [] c = "<" -> "W"

ObstructionFree(s) == \A k \in 1..Len(s) : s[k] # "#"

MarkerOnFacingEdge(s) ==
    LET c == s[MarkerPos(s)] IN
    \/ c = "^" /\ MarkerRow(s) = 0
    \/ c = "V" /\ MarkerRow(s) = TextRows(s) - 1
    \/ c = ">" /\ MarkerCol(s) = TextCols(s) - 1
    \/ c = "<" /\ MarkerCol(s) = 0

Loopers == {v.i : v \in {w \in verdict : w.is_loop}}
Tried == {v.i : v \in verdict} \cup {trial[w].val.i : w \in Active}

----------------------------------------------------------------------------
(* C1 *)

\* C1: on the sample board count_distinct_patrol_positions returns 41, the
\* number of distinct cells the guard occupied from its start (row 6, column 4)
\* until the first Leave; it does not panic.
C1_ExamplePatrol41 ==
    /\ result1 # Panic
    /\ pc \notin {"part1_parse", "part1_loop"} =>
          /\ result1 = Returned(41)
          /\ Cardinality(positions1) = 41
          /\ MarkerIndex(input) \in positions1
          /\ usize_MAX \notin positions1
          /\ area1.guard.index = usize_MAX

C1_Witness ==
    /\ input = EXAMPLE
    /\ MarkerRow(input) = 6 /\ MarkerCol(input) = 4
    /\ pc = "part2_parse"
    /\ result1.st = "ret"
    /\ first1 = Some(Advance(45))

----------------------------------------------------------------------------
(* C2 *)

\* row 6 col 3, row 7 col 6, row 7 col 7, row 8 col 1, row 8 col 3, row 9 col 7
ExampleLoopSites == {36, 67, 77, 18, 38, 79}

\* C2: on the sample board count_possible_loops returns 6: the number of
\* candidates whose trial (the board plus one obstruction at the candidate) did
\* not reach Leave within FUEL calls of next_state.  Every trial is classified
\* a loop exactly when its candidate is one of the six sites, a trial counted
\* as a loop made FUEL calls and one that is not left within FUEL calls.
C2_ExampleLoops6 ==
    /\ result2 # Panic
    /\ \A v \in verdict :
          /\ v.is_loop <=> v.i \in ExampleLoopSites
          /\ v.is_loop => v.calls = FUEL
          /\ v.calls <= FUEL
    /\ pc = "done" =>
          /\ result2 = Returned(6)
          /\ Loopers = ExampleLoopSites
          /\ Cardinality(verdict) = 41

C2_Witness ==
    /\ input = EXAMPLE
    /\ pc = "done"
    /\ result2.st = "ret"
    /\ Cardinality(Loopers) = 6
    /\ \E v \in verdict : ~v.is_loop /\ v.calls > 41

----------------------------------------------------------------------------
(* C3 *)

\* C3: for every valid rectangular board text, the parsed guard stands on the
\* marker's cell (linear index col * rows + row) and faces the marker's
\* direction.
C3_ParsedGuardIsMarker ==
    (area2 # None /\ ValidBoard(input)) =>
        /\ area2.guard.index = MarkerIndex(input)
        /\ area2.guard.direction = MarkerFacing(input)

----------------------------------------------------------------------------
(* C4 *)

\* C4: an obstruction on the guard's own starting cell is never counted by
\* count_possible_loops as a loop-inducing placement: on a valid board, a
\* parsed start that is counted is not the cell of the marker.
C4_StartNeverCounted ==
    (/\ result2.st = "ret"
     /\ area2.guard.index \in Loopers
     /\ ValidBoard(input))
    => area2.guard.index # MarkerIndex(input)

\* C4, its first half: the starting cell is no candidate of the loop search.
C4_StartNeverTried ==
    (pc = "part2_trials" /\ ValidBoard(input)) =>
        area2.guard.index \notin (todo \cup Tried)

----------------------------------------------------------------------------
(* C5 *)

\* C5: every obstruction site the loop search tries, or has still to try, is
\* a cell the unobstructed patrol of part 1 visited on the same board; no
\* candidate is tried twice; and the count count_possible_loops returns never
\* exceeds the count count_distinct_patrol_positions returns.
C5_CandidatesAreVisited ==
    /\ pc = "part2_trials" =>
          /\ result1.st = "ret"
          /\ (todo \cup Tried) \subseteq positions1
          /\ todo \cap Tried = {}
          /\ \A v, w \in verdict : v.i = w.i => v = w
          /\ \A w \in Active : \A v \in verdict : v.i # trial[w].val.i
    /\ result2.st = "ret" =>
          /\ result1.st = "ret"
          /\ Tried = positions1
          /\ result2.val <= result1.val

C5_Witness ==
    /\ pc = "done"
    /\ result2.st = "ret"
    /\ result2.val >= 1
    /\ result2.val < result1.val
    /\ Cardinality(verdict) = Cardinality(positions1)

----------------------------------------------------------------------------
(* C6 *)

\* C6: for every valid board, the count count_distinct_patrol_positions
\* returns is at least 1 and at most rows * cols.
C6_CountWithinBoard ==
    (result1.st = "ret" /\ ValidBoard(input)) =>
        /\ result1.val >= 1
        /\ result1.val <= TextRows(input) * TextCols(input)

\* C6, its reasons: the starting cell is recorded, and every recorded position
\* is a valid cell index.
C6_RecordedAreCells ==
    (result1.st = "ret" /\ ValidBoard(input)) =>
        /\ MarkerIndex(input) \in positions1
        /\ positions1 \subseteq 0..(TextRows(input) * TextCols(input) - 1)

----------------------------------------------------------------------------
(* C7 *)

\* C7: on an obstruction-free valid board whose marker lies on the edge it
\* faces, the first Action is Leave and the patrol visits exactly 1 position.
C7_EdgeGuardLeavesFirst ==
    (/\ first1 # None
     /\ ObstructionFree(input)
     /\ ValidBoard(input)
     /\ MarkerOnFacingEdge(input)) =>
        /\ first1 = Some(Leave)
        /\ result1 = Returned(1)

----------------------------------------------------------------------------
(* C8 *)

\* C8: a malformed input (rows of differing length, no guard marker, or an
\* unrecognized character) makes both entry points fail before any simulation
\* step: where an Area came out of the parse, a step was taken or a count was
\* returned, the input is not malformed.
C8_MalformedRejected ==
    (area1 # None \/ area2 # None \/ first1 # None
        \/ result1.st = "ret" \/ result2.st = "ret")
    => ~Malformed(input)

----------------------------------------------------------------------------
(* C10 *)

CyclicSuccessor(d) ==
    CASE d = "N" -> "E" [] d = "E" -> "S" [] d = "S" -> "W" [] d = "W" -> "N"

\* C10: turn_right is the cyclic successor N->E->S->W->N: it never returns
\* its argument, four applications return the original facing and fewer never
\* do; and a trial whose first step left the guard in place and on the board
\* (a Rotate) has turned the parsed facing to its successor.
C10_TurnRightFourCycle ==
    /\ \A d \in Direction :
          /\ turn_right(d) = CyclicSuccessor(d)
          /\ turn_right(d) # d
          /\ turn_right(turn_right(d)) # d
          /\ turn_right(turn_right(turn_right(d))) # d
          /\ turn_right(turn_right(turn_right(turn_right(d)))) = d
    /\ \A w \in Active :
          (/\ trial[w].val.fuel = 1
           /\ trial[w].val.area.guard.index = area2.guard.index)
          => trial[w].val.area.guard.direction
                = CyclicSuccessor(area2.guard.direction)

C10_Witness ==
    /\ \E w \in Active :
          /\ trial[w].val.fuel = 1
          /\ trial[w].val.area.guard.index = area2.guard.index
          /\ trial[w].val.area.guard.direction = "N"
    /\ area2.guard.direction = "W"

----------------------------------------------------------------------------
(* The board as geometry: a column-major matrix, cell (row, col) at linear  *)
(* index col * nrows + row.                                                *)

CellRow(area, idx) == idx % area.map.nrows
CellCol(area, idx) == idx \div area.map.nrows

\* the guard stands on the edge of the grid it is facing
OnFacingEdge(area) ==
    LET d == area.guard.direction
        r == CellRow(area, area.guard.index)
        c == CellCol(area, area.guard.index)
    IN
    \/ d = "N" /\ r = 0
    \/ d = "S" /\ r = area.map.nrows - 1
    \/ d = "E" /\ c = area.map.ncols - 1
    \/ d = "W" /\ c = 0

\* the index of the cell next to the guard in its facing direction
FacingNeighbour(area) ==
    LET d == area.guard.direction
        idx == area.guard.index
    IN
    CASE d = "N" -> idx - 1
      [] d = "S" -> idx + 1
      [] d = "E" -> idx + area.map.nrows
      [] d = "W" -> idx - area.map.nrows

\* the Areas the next call of next_state is made on
Stepped ==
    (IF pc = "part1_loop" THEN {area1} ELSE {})
    \cup (IF pc = "part2_patrol" THEN {inner} ELSE {})
    \cup (IF pc = "part2_trials"
          THEN {trial[w].val.area :
                  w \in {a \in Active : /\ ~trial[a].val.not_a_loop
                                        /\ trial[a].val.fuel < budget}}
          ELSE {})

----------------------------------------------------------------------------
(* C11 *)

\* C11: on every rectangular board, square or not, for a guard at an index of
\* the map, next_guard_index returns None exactly when the guard stands on
\* the edge it is facing, and otherwise the index of the adjacent cell
\* (index - 1 north, index + 1 south, index + rows east, index - rows west),
\* which is an index of the map in the intended row and column; so no step
\* of the simulation indexes the map out of range.
C11_NextIndexIsNeighbour ==
    \A area \in Stepped :
       (area.guard.index \in DOMAIN area.map.data /\ ValidBoard(input)) =>
          /\ next_guard_index(area) =
                IF OnFacingEdge(area) THEN None ELSE Some(FacingNeighbour(area))
          /\ ~OnFacingEdge(area) =>
                /\ FacingNeighbour(area) \in DOMAIN area.map.data
                /\ area.guard.direction \in {"N", "S"} =>
                      CellCol(area, FacingNeighbour(area))
                         = CellCol(area, area.guard.index)
                /\ area.guard.direction \in {"E", "W"} =>
                      CellRow(area, FacingNeighbour(area))
                         = CellRow(area, area.guard.index)
          /\ next_guard_action(area) # Panicked

----------------------------------------------------------------------------
(* C12 *)

\* C12: next_guard_action returns exactly one of three outcomes, in a fixed
\* priority: Leave when the guard has no cell of the grid in front of it,
\* whatever the cells hold; otherwise Rotate when the cell in front is
\* Obstructed; otherwise Advance to that cell.  So the guard never advances
\* into an Obstructed cell, and a Rotate turns the guard without moving it,
\* one Rotate for each obstruction it faces in turn.
C12_ActionPriority ==
    \A area \in Stepped :
       (area.guard.index \in DOMAIN area.map.data /\ ValidBoard(input)) =>
          LET action == next_guard_action(area)
              after == run_action(area, action)
          IN
          /\ action # Panicked
          /\ action =
                IF OnFacingEdge(area) THEN Leave
                ELSE IF area.map.data[FacingNeighbour(area)] = "Obstructed"
                     THEN Rotate
                     ELSE Advance(FacingNeighbour(area))
          /\ action.kind = "Advance" => area.map.data[action.index] = "Clear"
          /\ action = Rotate =>
                /\ after.guard.index = area.guard.index
                /\ after.guard.direction = CyclicSuccessor(area.guard.direction)

----------------------------------------------------------------------------
(* C13 *)

\* what one call of next_state may change, from the Area before to the Area
\* after: never the map; of the guard, what the action returned names
StepFrame(before, after) ==
    LET action == next_guard_action(before) IN
    action # Panicked =>
       /\ after.map = before.map
       /\ action.kind = "Advance" =>
             /\ after.guard.index = action.index
             /\ after.guard.direction = before.guard.direction
       /\ action.kind = "Rotate" =>
             /\ after.guard.index = before.guard.index
             /\ after.guard.direction = CyclicSuccessor(before.guard.direction)
       /\ action.kind = "Leave" =>
             /\ after.guard.index = usize_MAX
             /\ after.guard.direction = before.guard.direction

\* C13: run_action changes only what its action names: Advance the guard's
\* position, Rotate the guard's facing, Leave the position to usize::MAX.  No
\* step of a patrol or of a trial changes a cell of the map, the parsed
\* original of the loop search is never changed, and the map of a trial is
\* the original's with the one obstruction placed at its candidate before the
\* first step.
C13_StepsChangeOnlyGuard ==
    [][/\ pc = "part1_loop" => StepFrame(area1, area1')
       /\ pc = "part2_patrol" => StepFrame(inner, inner')
       /\ pc \in {"part2_patrol", "part2_trials"} => area2' = area2
       /\ pc = "part2_trials" =>
             \A w \in 1..threads :
                /\ (trial[w] = None /\ trial'[w] # None) =>
                      /\ trial'[w].val.area.guard = area2.guard
                      /\ trial'[w].val.area.map.data =
                            [k \in DOMAIN area2.map.data |->
                               IF k = trial'[w].val.i THEN "Obstructed"
                               ELSE area2.map.data[k]]
                /\ (trial[w] # None /\ trial'[w] # None /\ trial'[w] # trial[w]) =>
                      StepFrame(trial[w].val.area, trial'[w].val.area)
      ]_vars

\* a trial in which each kind of action has run: the guard has been in three
\* positions and two facings, and has left
C13_Witness ==
    \E w \in Active :
       /\ trial[w].val.not_a_loop
       /\ trial[w].val.area.guard.index = usize_MAX
       /\ Cardinality({g.index : g \in trial[w].val.been}) >= 3
       /\ Cardinality({g.direction : g \in trial[w].val.been}) >= 2

----------------------------------------------------------------------------
(* C14 *)

\* C14: however the candidates are handed to the worker threads and however
\* the steps of their trials interleave, every trial runs on a copy of its
\* own: its map is the original's with its candidate's obstruction and no
\* other, its guard starts where the original's stands; no two workers hold
\* the same candidate; the original Area and the value each worker was given
\* stay as parsed; every verdict is the one the trial gives when run alone,
\* and the count returned is the count of evaluating the candidates one after
\* the other.
C14_TrialsAreIsolated ==
    /\ pc = "part2_trials" =>
          /\ area2 = from_str(input).area
          /\ \A w \in 1..threads : base[w] = area2
          /\ \A w \in Active :
                LET t == trial[w].val IN
                /\ t.area.map = place_obstruction(area2, t.i).map
                /\ t.fuel = 0 => t.area.guard = area2.guard
                /\ \A u \in Active : u # w => trial[u].val.i # t.i
          /\ \A v \in verdict :
                v.is_loop =
                   (run_trial(place_obstruction(area2, v.i), budget) = "loop")
    /\ (pc = "done" /\ \E w \in 1..threads : base[w] # None) =>
          result2 = count_sequentially(area2, positions2, budget)

\* every worker is inside a trial that has stepped, one of them on its second
\* candidate at least, and a loop has been found already
C14_Witness ==
    /\ threads >= 2
    /\ pc = "part2_trials"
    /\ Active = 1..threads
    /\ \A w \in Active : trial[w].val.fuel >= 1
    /\ \E v \in verdict : v.is_loop

----------------------------------------------------------------------------
(* C15 *)

\* the count the loop search returns on the board of this run when built with
\* the budget f
CountWith(f) == count_sequentially(area2, positions2, f)

\* the loop search has returned a count
Counted == pc = "done" /\ result2.st = "ret"

\* C15 as claimed: a budget too low makes the loop search count fewer loops:
\* on the same board the count under a smaller budget is never greater than
\* the count under a larger one, and a candidate whose trial escapes is never
\* counted as a loop because the budget is small.
C15_LowBudgetUndercounts ==
    Counted =>
       /\ result2 = CountWith(budget)
       /\ \A f \in 0..budget :
             CountWith(f).st = "ret" => CountWith(f).val <= result2.val
       /\ \A v \in verdict : ~v.is_loop =>
             \A f \in 0..budget :
                run_trial(place_obstruction(area2, v.i), f) # "loop"

\* C15 amended: a budget too low makes the loop search count more loops, never
\* fewer: on the same board the count under a smaller budget is never smaller
\* than the count under a larger one; a candidate counted as a loop is counted
\* as a loop under every smaller budget; and a candidate whose trial escapes
\* at its n-th call of next_state is an escape under every budget of at least
\* n and is counted as a loop under every budget below n.
C15_LowBudgetOvercounts ==
    Counted =>
       /\ result2 = CountWith(budget)
       /\ \A f \in 0..budget :
             CountWith(f).st = "ret" /\ CountWith(f).val >= result2.val
       /\ \A v \in verdict : \A f \in 0..budget :
             LET alone == run_trial(place_obstruction(area2, v.i), f) IN
             /\ v.is_loop => v.calls = budget /\ alone = "loop"
             /\ ~v.is_loop =>
                   /\ v.calls \in 1..budget
                   /\ f >= v.calls => alone = "escape"
                   /\ f < v.calls => alone = "loop"

\* a board on which a smaller budget counts strictly more loops: some trial
\* escaped, and not at its first call
C15_Witness ==
    /\ Counted
    /\ \E f \in 0..budget : f > 0 /\ CountWith(f).val > result2.val
    /\ \E v \in verdict : ~v.is_loop /\ v.calls >= 2

----------------------------------------------------------------------------
(* C16 *)

\* the guard of this Area has left: its position is the sentinel
Departed(area) == area.guard.index = usize_MAX

\* what is left of the loop search, as a number: for every candidate not yet
\* handed out a whole trial (its start, budget steps, its end), for every
\* trial in progress the steps its budget still allows and its end
RECURSIVE TrialsLeft(_)
TrialsLeft(n) ==
    IF n = 0 THEN 0
    ELSE TrialsLeft(n - 1)
         + (IF trial[n] = None THEN 0
            ELSE (budget - trial[n].val.fuel) + 1)

WorkLeft == Cardinality(todo) * (budget + 2) + TrialsLeft(threads)

\* the loop search has a step to take: a worker can take a candidate, every
\* worker inside the closure can iterate or return, or the count can be returned
CanGoOn ==
    /\ \A w \in Active :
          LET t == trial[w].val IN
          \/ ~t.not_a_loop /\ t.fuel < budget
          \/ t.not_a_loop \/ t.fuel = budget
    /\ (Active = {} /\ todo # {}) => \E w \in 1..threads : trial[w] = None

\* C16: every trial ends after at most FUEL calls of next_state: at the call
\* that returns Leave, if there is one (an escape), and otherwise after
\* exactly FUEL calls (a loop).  Neither a patrol nor a trial steps an Area
\* whose guard has left.  Once the unobstructed patrol has reached Leave the
\* loop search cannot stop short of its return and every step brings the
\* return closer, so it terminates.
C16_TrialsTerminate ==
    [][/\ pc = "part1_loop" => ~Departed(area1)
       /\ pc = "part2_patrol" => ~Departed(inner)
       /\ pc = "part2_trials" =>
             /\ \A w \in Active :
                   LET t == trial[w].val IN
                   IF trial'[w] = None
                   THEN \* the closure returns
                        /\ t.fuel <= budget
                        /\ t.not_a_loop => Departed(t.area)
                        /\ ~t.not_a_loop => t.fuel = budget /\ ~Departed(t.area)
                   ELSE LET u == trial'[w].val IN
                        u.fuel # t.fuel =>
                           \* one more call of next_state
                           /\ ~Departed(t.area)
                           /\ ~t.not_a_loop
                           /\ u.fuel = t.fuel + 1
                           /\ u.fuel <= budget
                           /\ u.not_a_loop = Departed(u.area)
             /\ \A v \in verdict' :
                   /\ v.calls <= budget
                   /\ v.is_loop => v.calls = budget
             /\ \/ pc' = "done"
                \/ pc' = "part2_trials" /\ WorkLeft' < WorkLeft
       /\ pc' = "part2_trials" => (WorkLeft' >= 0 /\ CanGoOn')
      ]_vars

\* the loop search has returned with budget FUEL, having found a loop after
\* exactly FUEL calls and an escape after fewer
C16_Witness ==
    /\ Counted
    /\ budget = FUEL
    /\ \E v \in verdict : v.is_loop /\ v.calls = FUEL
    /\ \E v \in verdict : ~v.is_loop /\ v.calls < FUEL

----------------------------------------------------------------------------
(* C17 *)

\* the budget covers every (position, facing) pair of the board
BudgetCoversBoard == 4 * area2.map.nrows * area2.map.ncols <= budget

\* C17: on a board with 4 * rows * cols <= FUEL the verdict of the budget is
\* the verdict of exact cycle detection: a trial is counted as a loop exactly
\* when its guard came back, before any Leave, to a (position, facing) pair
\* it had been in, and as an escape exactly when a step returned Leave.  On
\* a board of any size a trial counted as an escape is not a loop: its guard
\* never came back to such a pair, and a guard that did never leaves; and it
\* left within 4 * rows * cols calls of next_state.
C17_BudgetIsCycleDetection ==
    pc \in {"part2_trials", "done"} =>
       /\ \A w \in Active :
             LET t == trial[w].val IN
             /\ t.not_a_loop = Departed(t.area)
             /\ ~(t.again /\ t.not_a_loop)
             /\ Cardinality(t.been) <= t.fuel + 1
             /\ ~t.again => Cardinality(t.been) = t.fuel + 1
       /\ \A v \in verdict :
             /\ ~v.is_loop => ~v.again
             /\ ~v.is_loop => v.calls <= 4 * area2.map.nrows * area2.map.ncols
             /\ BudgetCoversBoard => (v.is_loop = v.again)

\* with budget FUEL on a board it covers, a trial was counted as a loop, its
\* guard having come back to a pair, and another as an escape
C17_Witness ==
    /\ pc = "part2_trials"
    /\ budget = FUEL
    /\ BudgetCoversBoard
    /\ \E v \in verdict : v.is_loop /\ v.again
    /\ \E v \in verdict : ~v.is_loop /\ ~v.again /\ v.calls >= 2

====
